---- MODULE Spec2Model ----
(***************************************************************************)
(* Library-jb-API (src/index.js): the Express routes over the Sequelize    *)
(* tables Usuario, Livro and Emprestimo.                                   *)
(*                                                                         *)
(* Tables with auto-increment primary keys and no deletion (Usuario,       *)
(* Livro) are sequences indexed by id; Emprestimo rows are deleted, so the *)
(* table is a function from the live ids to rows plus the next id.         *)
(* Time is counted in days.  Error messages are written without accents.   *)
(*                                                                         *)
(* Spec      alugar, devolver, renovar; one request at a time              *)
(* SpecFalha the same, and a store call of a request may reject            *)
(* SpecApi   every route that reads or writes a table; one at a time       *)
(* SpecLivros the catalogue routes, every body field; one at a time        *)
(* SpecExterno as Spec, over a database that loses Livro rows              *)
(* SpecConc  alugar, devolver, renovar in flight at once, await by await   *)
(* SpecEmprestado as SpecConc, a loan being open at the start              *)
(***************************************************************************)
EXTENDS Integers, Sequences, FiniteSets, TLC

VARIABLES
    usuarios,      \* table Usuario: sequence of rows, id = index
    livros,        \* table Livro: sequence of rows, id = index
    emprestimos,   \* table Emprestimo: live id -> row
    proximoId,     \* next auto-increment id of table Emprestimo
    agora,         \* the clock read by new Date(), in days
    total,         \* history: the quantidade each Livro row was created with
    ultimo,        \* the last request answered and its HTTP response
    pc,            \* per in-flight handler: the await it is suspended at
    loc,           \* per in-flight handler: its request and local variables
    pedidos        \* requests counted against the bound of the specification

vars == <<usuarios, livros, emprestimos, proximoId, agora, total, ultimo, pc, loc,
          pedidos>>

(***************************** bounds *************************************)
NumUsuarios == 1       \* rows of table Usuario in the initial states
NumLivros == 1         \* rows of table Livro in the initial states
MaxQuantidade == 2     \* largest initial quantidade
MaxEmprestimos == 2    \* ids table Emprestimo hands out
MaxAgora == 1          \* days the clock advances
NumProcs == 2          \* handlers in flight at once
MaxPedidos == 3        \* requests the concurrent handlers receive
MaxPedidosApi == 2     \* requests served in SpecApi and in SpecExterno
MaxPedidosLivros == 1  \* requests served in SpecLivros
MaxFalhas == 1         \* requests in which a store call rejects in SpecFalha

(************************* program constants ******************************)
DiasEmprestimo == 7    \* getDate() + 7
MaxRenovacoes == 2     \* renovacoes < 2

UsuarioIds == 1..(NumUsuarios + 1)     \* the last id resolves to no row
LivroIds == 1..(NumLivros + 1)         \* the last id resolves to no row
EmprestimoIds == 1..(MaxEmprestimos + 1)
Procs == 1..NumProcs

ErroAlugar == "Usuario ou livro invalido, ou livro nao disponivel"
ErroLivro == "Livro nao encontrado"
ErroEmprestimo == "ID de emprestimo invalido"
ErroRenovar == "Nao e possivel renovar mais vezes"
MsgDevolvido == "Livro devolvido com sucesso"
MsgRenovado == "Livro renovado com sucesso!"
ErroStore == "error.message"     \* the message of the error a store call rejected with

(************************* store primitives *******************************)
\* Usuario.findByPk: the row, or null (existe = FALSE)
FindUsuario(id) ==
    IF id \in DOMAIN usuarios THEN [existe |-> TRUE] ELSE [existe |-> FALSE]

\* faulty variant: an id that matches no row yields an instance all the same
FindLivro_Sempre(id) ==
    IF id \in DOMAIN livros
        THEN [existe |-> TRUE, quantidade |-> livros[id].quantidade]
        ELSE [existe |-> TRUE, quantidade |-> 0]

\* Livro.findByPk: an instance holding a copy of the row, or null
FindLivro(id) ==
    IF id \in DOMAIN livros
        THEN [existe |-> TRUE, quantidade |-> livros[id].quantidade]
        ELSE [existe |-> FALSE, quantidade |-> 0]

\* Emprestimo.findByPk: an instance holding a copy of the row, or null
FindEmprestimo(id) ==
    IF id \in DOMAIN emprestimos
        THEN [existe |-> TRUE, LivroId |-> emprestimos[id].LivroId,
              dataVencimento |-> emprestimos[id].dataVencimento,
              renovacoes |-> emprestimos[id].renovacoes]
        ELSE [existe |-> FALSE, LivroId |-> 0, dataVencimento |-> 0, renovacoes |-> 0]

\* Emprestimo.create: insert a row under the next id; renovacoes defaults to 0
CreateEmprestimo(tab, id, usuarioId, livroId, dataVencimento) ==
    [e \in DOMAIN tab \cup {id} |->
        IF e = id
            THEN [UsuarioId |-> usuarioId, LivroId |-> livroId,
                  dataVencimento |-> dataVencimento, renovacoes |-> 0]
            ELSE tab[e]]

\* livro.save() after an assignment to quantidade: UPDATE ... SET quantidade
\* WHERE id; no row matched is no error
SaveQuantidade(tab, id, q) ==
    IF id \in DOMAIN tab THEN [tab EXCEPT ![id].quantidade = q] ELSE tab

\* emprestimo.destroy(): DELETE ... WHERE id; no row matched is no error
DestroyEmprestimo(tab, id) ==
    [e \in DOMAIN tab \ {id} |-> tab[e]]

\* faulty variant: the UPDATE has no WHERE and writes every row
SaveRenovacoes_Todos(tab, id, r) ==
    [e \in DOMAIN tab |-> [tab[e] EXCEPT !.renovacoes = r]]

\* emprestimo.save() in /renovar: only the attributes assigned through a
\* setter are written.  renovacoes was assigned; dataVencimento was changed
\* by setDate on the Date object the getter returned, which marks nothing as
\* changed, so the UPDATE carries renovacoes alone.
SaveRenovacoes(tab, id, r) ==
    IF id \in DOMAIN tab THEN [tab EXCEPT ![id].renovacoes = r] ELSE tab

\* faulty variant: the where clause is left out
FindAllDoUsuario_Todos(usuarioId) == DOMAIN emprestimos

\* Emprestimo.findAll({ where: { UsuarioId }, include: [Livro] }): the ids of
\* the rows selected; the include is a left join and drops no row
FindAllDoUsuario(usuarioId) ==
    {e \in DOMAIN emprestimos : emprestimos[e].UsuarioId = usuarioId}

(************************* handler conditions *****************************)
\* faulty variant: the availability test is left out
AlugarOk_SemTeste(usuario, livro) ==
    usuario.existe /\ livro.existe

\* faulty variant: the availability test lets a quantidade of 0 through
AlugarOk_SemEstoque(usuario, livro) ==
    usuario.existe /\ livro.existe /\ livro.quantidade >= 0

\* faulty variant: the book is not tested
AlugarOk_SemLivro(usuario, livro) ==
    usuario.existe

\* faulty variant: the user is not tested
AlugarOk_SemUsuario(usuario, livro) ==
    livro.existe /\ livro.quantidade > 0

\* if (usuario && livro && livro.quantidade > 0)
AlugarOk(usuario, livro) ==
    usuario.existe /\ livro.existe /\ livro.quantidade > 0

\* faulty variant: setDate(7) instead of setDate(getDate() + 7)
NovaDataVencimento_Fixa(hoje) == DiasEmprestimo

\* dataVencimento.setDate(dataVencimento.getDate() + 7) on new Date()
NovaDataVencimento(hoje) == hoje + DiasEmprestimo

\* faulty variant: the decrement is applied twice
QuantidadeAlugada_Dois(q) == q - 2

\* faulty variant: the decrement is dropped
QuantidadeAlugada_Igual(q) == q

\* livro.quantidade -= 1
QuantidadeAlugada(q) == q - 1

\* faulty variant: the restock adds two
QuantidadeDevolvida_Dupla(q) == q + 2

\* livro.quantidade += 1
QuantidadeDevolvida(q) == q + 1

\* faulty variant: the cap is tested with <=
RenovarOk_Inclusive(emprestimo) ==
    emprestimo.existe /\ emprestimo.renovacoes <= MaxRenovacoes

\* if (emprestimo && emprestimo.renovacoes < 2)
RenovarOk(emprestimo) ==
    emprestimo.existe /\ emprestimo.renovacoes < MaxRenovacoes

\* emprestimo.renovacoes += 1
RenovacoesApos(r) == r + 1

(************************* requests and responses *************************)
Pedido(rota, usuarioId, livroId, emprestimoId) ==
    [rota |-> rota, usuarioId |-> usuarioId, livroId |-> livroId,
     emprestimoId |-> emprestimoId]

Resposta(pedido, status, msg, id) ==
    [rota |-> pedido.rota, usuarioId |-> pedido.usuarioId,
     livroId |-> pedido.livroId, emprestimoId |-> pedido.emprestimoId,
     status |-> status, msg |-> msg, id |-> id, lista |-> {}, corpo |-> << >>,
     eco |-> 0]

\* the answer to a request whose body carries the fields titulo, autor, quantidade
RespostaCorpo(pedido, status, msg, id, titulo, autor, quantidade) ==
    [Resposta(pedido, status, msg, id) EXCEPT !.corpo = <<titulo, autor, quantidade>>]

\* a 200 whose body is a list of Emprestimo rows, given by their ids
RespostaLista(pedido, ids) ==
    [Resposta(pedido, 200, "", 0) EXCEPT !.lista = ids]

\* the response r is sent; eco tells it from an equal response sent just before
Responder(r) ==
    ultimo' = [r EXCEPT !.eco = IF [ultimo EXCEPT !.eco = 0] = r
                                    THEN 1 - ultimo.eco ELSE 0]

Nenhum == Resposta(Pedido("", 0, 0, 0), 0, "", 0)

LocVazio ==
    [pedido |-> Pedido("", 0, 0, 0), usuario |-> [existe |-> FALSE],
     livro |-> [existe |-> FALSE, quantidade |-> 0],
     emprestimo |-> [existe |-> FALSE, LivroId |-> 0, dataVencimento |-> 0,
                     renovacoes |-> 0],
     dataVencimento |-> 0, criado |-> 0]

Ocioso == \A p \in Procs : pc[p] = "idle"

(************************* initial states *********************************)
\* A synced database holding users, books and no loan; no request in flight.
Init ==
    /\ usuarios = [u \in 1..NumUsuarios |-> [email |-> u, senha |-> 1]]
    /\ \E qs \in [1..NumLivros -> 0..MaxQuantidade] :
          /\ livros = [l \in 1..NumLivros |->
                          [titulo |-> "A", autor |-> "A", quantidade |-> qs[l]]]
          /\ total = qs
    /\ emprestimos = << >>
    /\ proximoId = 1
    /\ agora = 0
    /\ ultimo = Nenhum
    /\ pc = [p \in Procs |-> "idle"]
    /\ loc = [p \in Procs |-> LocVazio]
    /\ pedidos = 0

(************************* handlers, run to completion ********************)
\* A handler run with falha = "" has every store call succeed; with falha
\* naming one of its store calls, that call rejects and the handler's catch
\* answers 400 with error.message.

\* POST /alugar
Alugar(usuarioId, livroId, falha) ==
    LET pedido == Pedido("alugar", usuarioId, livroId, 0)
        usuario == FindUsuario(usuarioId)
        livro == FindLivro(livroId)
    IN  /\ Ocioso
        /\ IF falha = "find"
              THEN /\ Responder(Resposta(pedido, 400, ErroStore, 0))
                   /\ UNCHANGED <<emprestimos, proximoId, livros>>
           ELSE IF ~AlugarOk(usuario, livro)
              THEN /\ Responder(Resposta(pedido, 400, ErroAlugar, 0))
                   /\ UNCHANGED <<emprestimos, proximoId, livros>>
           ELSE IF falha = "create"
              THEN /\ Responder(Resposta(pedido, 400, ErroStore, 0))
                   /\ UNCHANGED <<emprestimos, proximoId, livros>>
           ELSE /\ proximoId <= MaxEmprestimos
                /\ emprestimos' = CreateEmprestimo(emprestimos, proximoId, usuarioId,
                                                   livroId, NovaDataVencimento(agora))
                /\ proximoId' = proximoId + 1
                /\ IF falha = "save"
                      THEN /\ Responder(Resposta(pedido, 400, ErroStore, 0))
                           /\ UNCHANGED livros
                      ELSE /\ livros' = SaveQuantidade(livros, livroId,
                                            QuantidadeAlugada(livro.quantidade))
                           /\ Responder(Resposta(pedido, 201, "", proximoId))
        /\ UNCHANGED <<usuarios, agora, total, pc, loc>>

\* DELETE /devolver/:emprestimoId
Devolver(emprestimoId, falha) ==
    LET pedido == Pedido("devolver", 0, 0, emprestimoId)
        emprestimo == FindEmprestimo(emprestimoId)
        livro == FindLivro(emprestimo.LivroId)
    IN  /\ Ocioso
        /\ IF falha = "find"
              THEN /\ Responder(Resposta(pedido, 400, ErroStore, 0))
                   /\ UNCHANGED <<livros, emprestimos>>
           ELSE IF ~emprestimo.existe
              THEN /\ Responder(Resposta(pedido, 400, ErroEmprestimo, 0))
                   /\ UNCHANGED <<livros, emprestimos>>
           ELSE IF ~livro.existe
              THEN /\ Responder(Resposta(pedido, 400, ErroLivro, 0))
                   /\ UNCHANGED <<livros, emprestimos>>
           ELSE IF falha = "save"
              THEN /\ Responder(Resposta(pedido, 400, ErroStore, 0))
                   /\ UNCHANGED <<livros, emprestimos>>
           ELSE /\ livros' = SaveQuantidade(livros, emprestimo.LivroId,
                                            QuantidadeDevolvida(livro.quantidade))
                /\ IF falha = "destroy"
                      THEN /\ Responder(Resposta(pedido, 400, ErroStore, 0))
                           /\ UNCHANGED emprestimos
                      ELSE /\ emprestimos' = DestroyEmprestimo(emprestimos, emprestimoId)
                           /\ Responder(Resposta(pedido, 200, MsgDevolvido, 0))
        /\ UNCHANGED <<usuarios, proximoId, agora, total, pc, loc>>

\* POST /renovar
Renovar(emprestimoId, falha) ==
    LET pedido == Pedido("renovar", 0, 0, emprestimoId)
        emprestimo == FindEmprestimo(emprestimoId)
    IN  /\ Ocioso
        /\ IF falha = "find"
              THEN /\ Responder(Resposta(pedido, 400, ErroStore, 0))
                   /\ UNCHANGED emprestimos
           ELSE IF ~RenovarOk(emprestimo)
              THEN /\ Responder(Resposta(pedido, 400, ErroRenovar, 0))
                   /\ UNCHANGED emprestimos
           ELSE IF falha = "save"
              THEN /\ Responder(Resposta(pedido, 400, ErroStore, 0))
                   /\ UNCHANGED emprestimos
           ELSE /\ emprestimos' = SaveRenovacoes(emprestimos, emprestimoId,
                                                 RenovacoesApos(emprestimo.renovacoes))
                /\ Responder(Resposta(pedido, 200, MsgRenovado, 0))
        /\ UNCHANGED <<usuarios, livros, proximoId, agora, total, pc, loc>>

\* a day passes
Tick ==
    /\ agora < MaxAgora
    /\ agora' = agora + 1
    /\ UNCHANGED <<usuarios, livros, emprestimos, proximoId, total, ultimo, pc, loc,
                   pedidos>>

\* The lending engine, one request at a time, every store call succeeding.
Next ==
    \/ \E u \in {1, NumUsuarios + 1}, l \in LivroIds :
          Alugar(u, l, "") /\ UNCHANGED pedidos
    \/ \E e \in EmprestimoIds : Devolver(e, "") /\ UNCHANGED pedidos
    \/ \E e \in EmprestimoIds : Renovar(e, "") /\ UNCHANGED pedidos
    \/ Tick

Spec == Init /\ [][Next]_vars

\* a store call of this request rejects (f names it), or none does
Falha(f) ==
    IF f = "" THEN UNCHANGED pedidos
              ELSE pedidos < MaxFalhas /\ pedidos' = pedidos + 1

\* The lending engine, one request at a time, where any store call may reject.
NextFalha ==
    \/ \E u \in {1, NumUsuarios + 1}, l \in LivroIds,
          f \in {"", "find", "create", "save"} :
          Alugar(u, l, f) /\ Falha(f)
    \/ \E e \in EmprestimoIds, f \in {"", "find", "save", "destroy"} :
          Devolver(e, f) /\ Falha(f)
    \/ \E e \in EmprestimoIds, f \in {"", "find", "save"} :
          Renovar(e, f) /\ Falha(f)
    \/ Tick

SpecFalha == Init /\ [][NextFalha]_vars

(************************* catalogue, users, queries ***********************)
\* A body field is [dado |-> whether the request carries it, v |-> its
\* value]; for the integer-coded columns (email, senha) 0 stands for "".
Omitido(v) == [dado |-> FALSE, v |-> v]
Dado(v) == [dado |-> TRUE, v |-> v]

\* JavaScript truthiness of a body field: undefined, "" and 0 are falsy
TruthyTexto(campo) == campo.dado /\ campo.v # ""
TruthyNumero(campo) == campo.dado /\ campo.v # 0

\* faulty variant: campo ?? atual, a field that is sent overwrites, falsy or not
OuTexto_Dado(campo, atual) == IF campo.dado THEN campo.v ELSE atual

\* campo || atual, for a text column and for an integer(-coded) column
OuTexto(campo, atual) == IF TruthyTexto(campo) THEN campo.v ELSE atual
OuNumero(campo, atual) == IF TruthyNumero(campo) THEN campo.v ELSE atual

TextosDados == {Omitido(""), Dado(""), Dado("B")}
QuantidadesDadas == {Omitido(0), Dado(0), Dado(1), Dado(MaxQuantidade)}
Emails == 1..(NumUsuarios + 1)
EmailsDados == {Omitido(0)} \cup {Dado(m) : m \in Emails}
SenhasDadas == {Omitido(0), Dado(2)}

Erro404Livro == "Livro nao encontrado"
Erro404Usuario == "Usuario nao encontrado"
ErroLogin == "Credenciais invalidas"

\* the rest of the state is not touched by the catalogue, user and query routes
SoResponde == UNCHANGED <<emprestimos, proximoId, agora, pc, loc>>

\* POST /livros (editora, assunto and faixaEtaria are sent and valid; a
\* column that is allowNull: false and not sent fails validation)
CriarLivro(titulo, autor, quantidade) ==
    LET pedido == Pedido("criarLivro", 0, Len(livros) + 1, 0) IN
    /\ Ocioso
    /\ Len(livros) <= NumLivros
    /\ IF titulo.dado /\ autor.dado /\ quantidade.dado
          THEN /\ livros' = Append(livros, [titulo |-> titulo.v, autor |-> autor.v,
                                            quantidade |-> quantidade.v])
               /\ total' = Append(total, quantidade.v)
               /\ Responder(Resposta(pedido, 201, "", Len(livros) + 1))
          ELSE /\ Responder(Resposta(pedido, 500, ErroStore, 0))
               /\ UNCHANGED <<livros, total>>
    /\ UNCHANGED usuarios
    /\ SoResponde

\* PUT /livros/:id (editora, assunto and faixaEtaria are assigned by the
\* same `campo || atual` lines as titulo and autor)
AtualizarLivro(livroId, titulo, autor, quantidade) ==
    LET pedido == Pedido("atualizarLivro", 0, livroId, 0) IN
    /\ Ocioso
    /\ IF livroId \in DOMAIN livros
          THEN /\ livros' = [livros EXCEPT
                                ![livroId].titulo = OuTexto(titulo, @),
                                ![livroId].autor = OuTexto(autor, @),
                                ![livroId].quantidade = OuNumero(quantidade, @)]
               /\ Responder(RespostaCorpo(pedido, 200, "", livroId,
                                          titulo, autor, quantidade))
          ELSE /\ Responder(RespostaCorpo(pedido, 404, Erro404Livro, 0,
                                          titulo, autor, quantidade))
               /\ UNCHANGED livros
    /\ UNCHANGED <<usuarios, total>>
    /\ SoResponde

\* GET /livros
ListarLivros ==
    /\ Ocioso
    /\ Responder(Resposta(Pedido("listarLivros", 0, 0, 0), 200, "", 0))
    /\ UNCHANGED <<usuarios, livros, total>>
    /\ SoResponde

\* some other row of Usuario has this email (unique: true)
EmailEmUso(email, menos) ==
    \E u \in DOMAIN usuarios \ {menos} : usuarios[u].email = email

\* POST /registrar (nome is sent; it is stored like senha)
Registrar(email, senha) ==
    LET pedido == Pedido("registrar", Len(usuarios) + 1, 0, 0) IN
    /\ Ocioso
    /\ Len(usuarios) <= NumUsuarios
    /\ IF email.dado /\ senha.dado /\ ~EmailEmUso(email.v, 0)
          THEN /\ usuarios' = Append(usuarios, [email |-> email.v, senha |-> senha.v])
               /\ Responder(Resposta(pedido, 201, "", Len(usuarios) + 1))
          ELSE /\ Responder(Resposta(pedido, 400, ErroStore, 0))
               /\ UNCHANGED usuarios
    /\ UNCHANGED <<livros, total>>
    /\ SoResponde

\* PUT /usuarios/:id
AtualizarUsuario(usuarioId, email, senha) ==
    LET pedido == Pedido("atualizarUsuario", usuarioId, 0, 0) IN
    /\ Ocioso
    /\ IF usuarioId \notin DOMAIN usuarios
          THEN /\ Responder(Resposta(pedido, 404, Erro404Usuario, 0))
               /\ UNCHANGED usuarios
          ELSE IF EmailEmUso(OuNumero(email, usuarios[usuarioId].email), usuarioId)
          THEN /\ Responder(Resposta(pedido, 400, ErroStore, 0))
               /\ UNCHANGED usuarios
          ELSE /\ usuarios' = [usuarios EXCEPT ![usuarioId].email = OuNumero(email, @),
                                               ![usuarioId].senha = OuNumero(senha, @)]
               /\ Responder(Resposta(pedido, 200, "", usuarioId))
    /\ UNCHANGED <<livros, total>>
    /\ SoResponde

\* POST /login
Login(email, senha) ==
    LET achados == {u \in DOMAIN usuarios :
                       usuarios[u].email = email /\ usuarios[u].senha = senha}
        pedido == Pedido("login", 0, 0, 0)
    IN
    /\ Ocioso
    /\ IF achados # {}
          THEN Responder(Resposta([pedido EXCEPT !.usuarioId = CHOOSE u \in achados : TRUE],
                                  200, "", 0))
          ELSE Responder(Resposta(pedido, 401, ErroLogin, 0))
    /\ UNCHANGED <<usuarios, livros, total>>
    /\ SoResponde

\* GET /usuario/:usuarioId/emprestimos
EmprestimosDoUsuario(usuarioId) ==
    /\ Ocioso
    /\ Responder(RespostaLista(Pedido("emprestimosDoUsuario", usuarioId, 0, 0),
                                FindAllDoUsuario(usuarioId)))
    /\ UNCHANGED <<usuarios, livros, total>>
    /\ SoResponde

\* GET /livros-alugados
LivrosAlugados ==
    /\ Ocioso
    /\ Responder(RespostaLista(Pedido("livrosAlugados", 0, 0, 0), DOMAIN emprestimos))
    /\ UNCHANGED <<usuarios, livros, total>>
    /\ SoResponde

\* one more request is served
Conta ==
    /\ pedidos < MaxPedidosApi
    /\ pedidos' = pedidos + 1

\* Every route that reads or writes the tables, one request at a time.  The
\* largest id of each input set names no row until a row is created.  A book
\* update sends quantidade alone here; SpecLivros sends every field.
NextApi ==
    \/ \E u \in UsuarioIds, l \in LivroIds : Conta /\ Alugar(u, l, "")
    \/ \E e \in EmprestimoIds : Conta /\ Devolver(e, "")
    \/ \E e \in EmprestimoIds : Conta /\ Renovar(e, "")
    \/ \E t \in {Omitido(""), Dado("A")}, a \in {Omitido(""), Dado("A")},
          q \in QuantidadesDadas : Conta /\ CriarLivro(t, a, q)
    \/ \E l \in LivroIds, q \in QuantidadesDadas :
          Conta /\ AtualizarLivro(l, Omitido(""), Omitido(""), q)
    \/ Conta /\ ListarLivros
    \/ \E m \in EmailsDados, s \in SenhasDadas : Conta /\ Registrar(m, s)
    \/ \E u \in UsuarioIds, m \in EmailsDados, s \in SenhasDadas :
          Conta /\ AtualizarUsuario(u, m, s)
    \/ \E m \in Emails, s \in {1, 2} : Conta /\ Login(m, s)
    \/ \E u \in UsuarioIds : Conta /\ EmprestimosDoUsuario(u)
    \/ Conta /\ LivrosAlugados

SpecApi == Init /\ [][NextApi]_vars

\* one more request is served by the catalogue
ContaLivros ==
    /\ pedidos < MaxPedidosLivros
    /\ pedidos' = pedidos + 1

\* The catalogue routes, one request at a time, every field of the body
\* omitted, sent falsy or sent truthy.
NextLivros ==
    \/ \E t \in {Omitido(""), Dado("A")}, a \in {Omitido(""), Dado("A")},
          q \in QuantidadesDadas : ContaLivros /\ CriarLivro(t, a, q)
    \/ \E l \in LivroIds, t \in TextosDados, a \in TextosDados,
          q \in QuantidadesDadas : ContaLivros /\ AtualizarLivro(l, t, a, q)
    \/ ContaLivros /\ ListarLivros

SpecLivros == Init /\ [][NextLivros]_vars

(************************* rows deleted outside the routes ****************)
\* No route deletes a Livro row; a row can go only by a statement run
\* directly on the database.  The last row is the one deleted.  The column
\* LivroId that Livro.hasMany(Emprestimo) adds is nullable with ON DELETE
\* SET NULL where the engine enforces foreign keys (nulo: 0 stands for
\* NULL), and keeps the id of the missing row where it does not.
ApagarLivro(nulo) ==
    LET l == Len(livros) IN
    /\ Ocioso
    /\ livros # << >>
    /\ livros' = SubSeq(livros, 1, l - 1)
    /\ total' = SubSeq(total, 1, l - 1)
    /\ emprestimos' = [e \in DOMAIN emprestimos |->
                          IF nulo /\ emprestimos[e].LivroId = l
                              THEN [emprestimos[e] EXCEPT !.LivroId = 0]
                              ELSE emprestimos[e]]
    /\ UNCHANGED <<usuarios, proximoId, agora, ultimo, pc, loc, pedidos>>

\* The lending engine, one request at a time, over a database whose Livro
\* rows may be deleted from outside.
NextExterno ==
    \/ \E u \in {1, NumUsuarios + 1}, l \in LivroIds : Conta /\ Alugar(u, l, "")
    \/ \E e \in EmprestimoIds : Conta /\ Devolver(e, "")
    \/ \E e \in EmprestimoIds : Conta /\ Renovar(e, "")
    \/ \E nulo \in BOOLEAN : ApagarLivro(nulo)

SpecExterno == Init /\ [][NextExterno]_vars

(************************* handlers, await by await ***********************)
\* Handlers in flight at once.  A handler runs until its next await; the
\* store serves one call at a time, so a step is one store call together
\* with the handler's code between that call and the next one.  loc keeps
\* of each instance the attributes the handler goes on to read.  The
\* response is sent by the step that returns the handler to "idle": the
\* step's name and branch give its status, and ultimo is left alone.

\* the handler of p is suspended at `em`; it moves to `para`
Passo(p, em, para, l) ==
    /\ pc[p] = em
    /\ pc' = [pc EXCEPT ![p] = para]
    /\ loc' = [loc EXCEPT ![p] = l]

\* a request arrives and p is the handler that serves it
Chega(p) ==
    /\ pedidos < MaxPedidos
    /\ pedidos' = pedidos + 1
    /\ \A q \in Procs : q < p => pc[q] # "idle"

\* POST /alugar: Usuario.findByPk
AlugarUsuario(p, usuarioId, livroId) ==
    /\ Chega(p)
    /\ Passo(p, "idle", "alugar_livro",
             [LocVazio EXCEPT !.pedido = Pedido("alugar", usuarioId, livroId, 0),
                              !.usuario = FindUsuario(usuarioId)])
    /\ UNCHANGED <<usuarios, livros, emprestimos, proximoId, agora, total, ultimo>>

\* POST /alugar: Livro.findByPk, the test, new Date()
AlugarLivro(p) ==
    LET livro == FindLivro(loc[p].pedido.livroId) IN
    /\ IF AlugarOk(loc[p].usuario, livro)
          THEN Passo(p, "alugar_livro", "alugar_create",
                     [loc[p] EXCEPT !.livro = livro,
                                    !.dataVencimento = NovaDataVencimento(agora)])
          ELSE Passo(p, "alugar_livro", "idle", LocVazio)      \* 400 ErroAlugar
    /\ UNCHANGED <<usuarios, livros, emprestimos, proximoId, agora, total, ultimo,
                   pedidos>>

\* POST /alugar: Emprestimo.create
AlugarCreate(p) ==
    /\ Passo(p, "alugar_create", "alugar_save", [loc[p] EXCEPT !.criado = proximoId])
    /\ emprestimos' = CreateEmprestimo(emprestimos, proximoId, loc[p].pedido.usuarioId,
                                       loc[p].pedido.livroId, loc[p].dataVencimento)
    /\ proximoId' = proximoId + 1
    /\ UNCHANGED <<usuarios, livros, agora, total, ultimo, pedidos>>

\* POST /alugar: livro.quantidade -= 1; livro.save(); 201
AlugarSave(p) ==
    /\ Passo(p, "alugar_save", "idle", LocVazio)
    /\ livros' = SaveQuantidade(livros, loc[p].pedido.livroId,
                                QuantidadeAlugada(loc[p].livro.quantidade))
    /\ UNCHANGED <<usuarios, emprestimos, proximoId, agora, total, ultimo, pedidos>>

\* DELETE /devolver: Emprestimo.findByPk
DevolverEmprestimo(p, emprestimoId) ==
    LET emprestimo == FindEmprestimo(emprestimoId) IN
    /\ Chega(p)
    /\ IF emprestimo.existe
          THEN Passo(p, "idle", "devolver_livro",
                     [LocVazio EXCEPT !.pedido = Pedido("devolver", 0, 0, emprestimoId),
                                      !.emprestimo.existe = TRUE,
                                      !.emprestimo.LivroId = emprestimo.LivroId])
          ELSE Passo(p, "idle", "idle", LocVazio)               \* 400 ErroEmprestimo
    /\ UNCHANGED <<usuarios, livros, emprestimos, proximoId, agora, total, ultimo>>

\* DELETE /devolver: Livro.findByPk
DevolverLivro(p) ==
    LET livro == FindLivro(loc[p].emprestimo.LivroId) IN
    /\ IF livro.existe
          THEN Passo(p, "devolver_livro", "devolver_save", [loc[p] EXCEPT !.livro = livro])
          ELSE Passo(p, "devolver_livro", "idle", LocVazio)     \* 400 ErroLivro
    /\ UNCHANGED <<usuarios, livros, emprestimos, proximoId, agora, total, ultimo,
                   pedidos>>

\* DELETE /devolver: livro.quantidade += 1; livro.save()
DevolverSave(p) ==
    /\ Passo(p, "devolver_save", "devolver_destroy", loc[p])
    /\ livros' = SaveQuantidade(livros, loc[p].emprestimo.LivroId,
                                QuantidadeDevolvida(loc[p].livro.quantidade))
    /\ UNCHANGED <<usuarios, emprestimos, proximoId, agora, total, ultimo, pedidos>>

\* DELETE /devolver: emprestimo.destroy(); 200
DevolverDestroy(p) ==
    /\ Passo(p, "devolver_destroy", "idle", LocVazio)
    /\ emprestimos' = DestroyEmprestimo(emprestimos, loc[p].pedido.emprestimoId)
    /\ UNCHANGED <<usuarios, livros, proximoId, agora, total, ultimo, pedidos>>

\* POST /renovar: Emprestimo.findByPk, the test, the two assignments
RenovarEmprestimo(p, emprestimoId) ==
    LET emprestimo == FindEmprestimo(emprestimoId) IN
    /\ Chega(p)
    /\ IF RenovarOk(emprestimo)
          THEN Passo(p, "idle", "renovar_save",
                     [LocVazio EXCEPT !.pedido = Pedido("renovar", 0, 0, emprestimoId),
                                      !.emprestimo.existe = TRUE,
                                      !.emprestimo.renovacoes = emprestimo.renovacoes])
          ELSE Passo(p, "idle", "idle", LocVazio)               \* 400 ErroRenovar
    /\ UNCHANGED <<usuarios, livros, emprestimos, proximoId, agora, total, ultimo>>

\* POST /renovar: emprestimo.save(); 200
RenovarSave(p) ==
    /\ Passo(p, "renovar_save", "idle", LocVazio)
    /\ emprestimos' = SaveRenovacoes(emprestimos, loc[p].pedido.emprestimoId,
                                     RenovacoesApos(loc[p].emprestimo.renovacoes))
    /\ UNCHANGED <<usuarios, livros, proximoId, agora, total, ultimo, pedidos>>

\* The lending engine with requests served concurrently.  The requests name
\* a user that exists or one that does not; which user it is changes nothing.
NextConc ==
    \E p \in Procs :
        \/ \E u \in {1, NumUsuarios + 1}, l \in LivroIds :
              AlugarUsuario(p, u, l)
        \/ AlugarLivro(p)
        \/ AlugarCreate(p)
        \/ AlugarSave(p)
        \/ \E e \in EmprestimoIds : DevolverEmprestimo(p, e)
        \/ DevolverLivro(p)
        \/ DevolverSave(p)
        \/ DevolverDestroy(p)
        \/ \E e \in EmprestimoIds : RenovarEmprestimo(p, e)
        \/ RenovarSave(p)

SpecConc == Init /\ [][NextConc]_vars

\* A synced database in which loan 1, of user 1 and book 1, made on day 0,
\* is open and has been renewed any number of times the cap allows; the
\* stored dataVencimento of a renewed loan is the one it was created with.
InitEmprestado ==
    /\ usuarios = [u \in 1..NumUsuarios |-> [email |-> u, senha |-> 1]]
    /\ \E qs \in [1..NumLivros -> 0..MaxQuantidade] :
          /\ livros = [l \in 1..NumLivros |->
                          [titulo |-> "A", autor |-> "A", quantidade |-> qs[l]]]
          /\ total = [l \in 1..NumLivros |-> IF l = 1 THEN qs[l] + 1 ELSE qs[l]]
    /\ \E r \in 0..MaxRenovacoes :
          emprestimos = [e \in {1} |->
                            [UsuarioId |-> 1, LivroId |-> 1,
                             dataVencimento |-> NovaDataVencimento(0), renovacoes |-> r]]
    /\ proximoId = 2
    /\ agora = 0
    /\ ultimo = Nenhum
    /\ pc = [p \in Procs |-> "idle"]
    /\ loc = [p \in Procs |-> LocVazio]
    /\ pedidos = 0

\* the concurrent lending engine started over a database with an open loan
SpecEmprestado == InitEmprestado /\ [][NextConc]_vars

(************************* properties *************************************)
\* the open loans that reference book l
EmprestimosDe(l) == {e \in DOMAIN emprestimos : emprestimos[e].LivroId = l}

\* a response was sent in this step to a request of this route
Respondeu(rota) == ultimo' # ultimo /\ ultimo'.rota = rota

\* every loan other than e is the same before and after
OutrosIguais(e) ==
    \A x \in (DOMAIN emprestimos \cup DOMAIN emprestimos') \ {e} :
        /\ x \in DOMAIN emprestimos
        /\ x \in DOMAIN emprestimos'
        /\ emprestimos'[x] = emprestimos[x]

\* C1: served one at a time, after any sequence of alugar, devolver and
\* renovar every book's quantidade plus the number of its open loans equals
\* its total (its quantidade when no loan was open).
C1_Conservacao ==
    \A l \in DOMAIN livros :
        livros[l].quantidade + Cardinality(EmprestimosDe(l)) = total[l]

\* C1 witness: a book with two copies, one lent and still out, one lent and returned
C1_Witness ==
    /\ ultimo.rota = "devolver" /\ ultimo.status = 200
    /\ \E l \in DOMAIN livros :
          total[l] = 2 /\ livros[l].quantidade = 1 /\ Cardinality(EmprestimosDe(l)) = 1

\* C3: alugar on a book whose quantidade is 0 answers 400 with the
\* not-available message and changes no loan and no quantidade.
C3_SemEstoqueFalha ==
    [][(/\ Respondeu("alugar")
        /\ ultimo'.livroId \in DOMAIN livros
        /\ livros[ultimo'.livroId].quantidade = 0)
       => (/\ ultimo'.status = 400
           /\ ultimo'.msg = ErroAlugar
           /\ UNCHANGED <<emprestimos, proximoId, livros, usuarios>>)]_vars

\* C3 witness: an existing user was refused a book that borrowing had exhausted
C3_Witness ==
    /\ ultimo.rota = "alugar" /\ ultimo.status = 400
    /\ ultimo.usuarioId \in DOMAIN usuarios
    /\ ultimo.livroId \in DOMAIN livros
    /\ livros[ultimo.livroId].quantidade = 0
    /\ total[ultimo.livroId] > 0

\* C4: no loan's renovacoes ever exceeds 2, and renovar on a loan whose
\* renovacoes is 2 answers 400 with the limit message and leaves the loan
\* (count and due date) as it was.
C4_LimiteRenovacoes ==
    /\ [](\A e \in DOMAIN emprestimos : emprestimos[e].renovacoes <= MaxRenovacoes)
    /\ [][(/\ Respondeu("renovar")
            /\ ultimo'.emprestimoId \in DOMAIN emprestimos
            /\ emprestimos[ultimo'.emprestimoId].renovacoes = MaxRenovacoes)
           => (/\ ultimo'.status = 400
               /\ ultimo'.msg = ErroRenovar
               /\ UNCHANGED emprestimos)]_vars

\* C4 witness: a third renovar was refused on a loan renewed twice
C4_Witness ==
    /\ ultimo.rota = "renovar" /\ ultimo.status = 400
    /\ ultimo.emprestimoId \in DOMAIN emprestimos
    /\ emprestimos[ultimo.emprestimoId].renovacoes = 2

\* C5: a devolver answered 200 adds exactly 1 to the quantidade of the
\* loan's book, removes exactly that loan and changes nothing else; a
\* devolver of an id that is no open loan (a loan already returned) answers
\* 400 with the invalid-id message and changes no quantidade and no loan.
C5_Devolucao ==
    [][Respondeu("devolver") =>
        LET e == ultimo'.emprestimoId IN
        /\ (ultimo'.status = 200) =>
              /\ e \in DOMAIN emprestimos
              /\ DOMAIN emprestimos' = DOMAIN emprestimos \ {e}
              /\ OutrosIguais(e)
              /\ emprestimos[e].LivroId \in DOMAIN livros
              /\ livros' = [livros EXCEPT ![emprestimos[e].LivroId].quantidade = @ + 1]
        /\ (e \notin DOMAIN emprestimos) =>
              /\ ultimo'.status = 400
              /\ ultimo'.msg = ErroEmprestimo
              /\ UNCHANGED <<livros, emprestimos>>]_vars

\* C5 witness: a second devolver of a loan that was created and returned
C5_Witness ==
    /\ ultimo.rota = "devolver" /\ ultimo.status = 400
    /\ ultimo.emprestimoId < proximoId
    /\ ultimo.emprestimoId \notin DOMAIN emprestimos

\* C6: a request answered with an error leaves the loans and every
\* quantidade as they were before it, also when a store call rejects after
\* an earlier write of the same request succeeded.
C6_SemMutacaoParcial ==
    [][(ultimo' # ultimo /\ ultimo'.status = 400)
       => UNCHANGED <<emprestimos, livros>>]_vars

\* the handlers p and q are in flight together, both at `em`, both serving
\* the same request
Juntos(p, q, em) ==
    /\ p # q
    /\ pc[p] = em
    /\ pc[q] = em
    /\ loc[p].pedido = loc[q].pedido

\* C2: of two alugar requests for the same book served concurrently, both
\* having read quantidade = 1, at most one creates a loan (the other is
\* refused as not available).
C2_UmSoAluga ==
    \A p, q \in Procs :
        ~(/\ Juntos(p, q, "alugar_save")
          /\ loc[p].livro.quantidade = 1
          /\ loc[q].livro.quantidade = 1
          /\ {loc[p].criado, loc[q].criado} \subseteq DOMAIN emprestimos)

\* C7: when two devolver requests for the same loan are served
\* concurrently and both have saved the book, its quantidade is 1 more than
\* before the two requests, not 2 more.
C7_DevolucaoUnica ==
    \A p, q \in Procs :
        (/\ Juntos(p, q, "devolver_destroy")
         /\ loc[p].livro.quantidade <= loc[q].livro.quantidade)
        => livros[loc[p].emprestimo.LivroId].quantidade = loc[p].livro.quantidade + 1

\* C8: from books with quantidade >= 0, under every interleaving of the
\* store calls of alugar, devolver and renovar requests, every book's
\* quantidade is >= 0 in every state.
C8_NaoNegativa ==
    \A l \in DOMAIN livros : livros[l].quantidade >= 0

\* C8 witness: two concurrent alugar requests both took the one copy of a
\* book, each saving quantidade 1 - 1
C8_Witness ==
    /\ Ocioso
    /\ \E l \in DOMAIN livros :
          total[l] = 1 /\ livros[l].quantidade = 0 /\ Cardinality(EmprestimosDe(l)) = 2

\* the quantidade of book l changes in this step as the decrement of an
\* alugar answered 201 that creates exactly one loan, of that book
AluguelPareado(l) ==
    /\ Respondeu("alugar")
    /\ ultimo'.status = 201
    /\ ultimo'.livroId = l
    /\ livros'[l].quantidade = livros[l].quantidade - 1
    /\ ultimo'.id \notin DOMAIN emprestimos
    /\ DOMAIN emprestimos' = DOMAIN emprestimos \cup {ultimo'.id}
    /\ emprestimos'[ultimo'.id].LivroId = l

\* the quantidade of book l changes in this step as the increment of a
\* devolver answered 200 that destroys exactly one loan, of that book
DevolucaoPareada(l) ==
    /\ Respondeu("devolver")
    /\ ultimo'.status = 200
    /\ ultimo'.emprestimoId \in DOMAIN emprestimos
    /\ emprestimos[ultimo'.emprestimoId].LivroId = l
    /\ livros'[l].quantidade = livros[l].quantidade + 1
    /\ DOMAIN emprestimos' = DOMAIN emprestimos \ {ultimo'.emprestimoId}

\* the quantidade of book l changes in this step by a PUT /livros/l answered 200
AtualizacaoDe(l) ==
    /\ Respondeu("atualizarLivro")
    /\ ultimo'.status = 200
    /\ ultimo'.livroId = l

\* C9 as stated: over all routes, the quantidade of an existing book
\* changes only by alugar (a decrement paired with one created loan) or by
\* devolver (an increment paired with one destroyed loan).
C9_SoAlugarDevolver ==
    [][\A l \in DOMAIN livros :
          livros'[l].quantidade # livros[l].quantidade
          => (AluguelPareado(l) \/ DevolucaoPareada(l))]_vars

\* C9 as amended: over all routes, the quantidade of an existing book
\* changes only by alugar (a decrement paired with one created loan), by
\* devolver (an increment paired with one destroyed loan) or by a book
\* update of that book; renovar, the queries, the listing and the user
\* routes leave every quantidade unchanged.
C9_SoAlugarDevolverAtualizar ==
    [][\A l \in DOMAIN livros :
          livros'[l].quantidade # livros[l].quantidade
          => (AluguelPareado(l) \/ DevolucaoPareada(l) \/ AtualizacaoDe(l))]_vars

\* C9 witness: a book update has set a quantidade that no alugar or devolver
\* accounts for
C9_Witness ==
    /\ ultimo.rota = "atualizarLivro" /\ ultimo.status = 200
    /\ livros[ultimo.livroId].quantidade + Cardinality(EmprestimosDe(ultimo.livroId))
          # total[ultimo.livroId]

\* C10: alugar by an existing user of an existing book with quantidade
\* q > 0 answers 201, sets that book's quantidade to q - 1 and creates
\* exactly one loan, of that user and book, with renovacoes 0 and
\* dataVencimento = the day of the request + 7; nothing else changes.
C10_Alugar ==
    [][(/\ Respondeu("alugar")
        /\ ultimo'.usuarioId \in DOMAIN usuarios
        /\ ultimo'.livroId \in DOMAIN livros
        /\ livros[ultimo'.livroId].quantidade > 0)
       => LET l == ultimo'.livroId
              novo == ultimo'.id
          IN  /\ ultimo'.status = 201
              /\ livros' = [livros EXCEPT ![l].quantidade = @ - 1]
              /\ novo \notin DOMAIN emprestimos
              /\ DOMAIN emprestimos' = DOMAIN emprestimos \cup {novo}
              /\ OutrosIguais(novo)
              /\ emprestimos'[novo] =
                    [UsuarioId |-> ultimo'.usuarioId, LivroId |-> l,
                     dataVencimento |-> agora + 7, renovacoes |-> 0]
              /\ UNCHANGED usuarios]_vars

\* C10 witness: a loan made on day 1 is in the table, due on day 8
C10_Witness ==
    /\ ultimo.rota = "alugar" /\ ultimo.status = 201
    /\ ultimo.id \in DOMAIN emprestimos
    /\ emprestimos[ultimo.id].dataVencimento = 8
    /\ emprestimos[ultimo.id].renovacoes = 0
    /\ livros[ultimo.livroId].quantidade = total[ultimo.livroId] - 1

\* C11: a renovar answered 200 adds 1 to the loan's renovacoes and 7 days to
\* its stored dataVencimento, counted from the stored value, so a loan made
\* on day t is due on t + 14 after one renewal and on t + 21 after two.
C11_RenovarEstende ==
    [][(Respondeu("renovar") /\ ultimo'.status = 200) =>
        LET e == ultimo'.emprestimoId IN
        /\ e \in DOMAIN emprestimos
        /\ e \in DOMAIN emprestimos'
        /\ emprestimos'[e].renovacoes = emprestimos[e].renovacoes + 1
        /\ emprestimos'[e].dataVencimento = emprestimos[e].dataVencimento + DiasEmprestimo]_vars

\* C12: a renovar, answered 200 or 400, leaves every book's quantidade, the
\* set of open loans, and the renovacoes and dataVencimento of every loan
\* other than the one named unchanged; the named loan keeps its user and book.
C12_RenovarSoOEmprestimo ==
    [][Respondeu("renovar") =>
        LET e == ultimo'.emprestimoId IN
        /\ UNCHANGED <<livros, usuarios, proximoId>>
        /\ DOMAIN emprestimos' = DOMAIN emprestimos
        /\ OutrosIguais(e)
        /\ e \in DOMAIN emprestimos =>
              /\ emprestimos'[e].UsuarioId = emprestimos[e].UsuarioId
              /\ emprestimos'[e].LivroId = emprestimos[e].LivroId
        /\ (ultimo'.status # 200) => UNCHANGED emprestimos]_vars

\* C12 witness: a loan was renewed while another loan was open
C12_Witness ==
    /\ ultimo.rota = "renovar" /\ ultimo.status = 200
    /\ Cardinality(DOMAIN emprestimos) >= 2
    /\ \E x \in DOMAIN emprestimos \ {ultimo.emprestimoId} : emprestimos[x].renovacoes = 0

\* the alugar answered in this step names a user or a book that is no row
AlugouSemRegistro ==
    /\ Respondeu("alugar")
    /\ \/ ultimo'.usuarioId \notin DOMAIN usuarios
       \/ ultimo'.livroId \notin DOMAIN livros

\* C13 as stated: alugar with a user id or a book id that resolves to no row
\* is refused with an error that differs from the refusal of a book with
\* quantidade 0 (which carries ErroAlugar), and creates no loan and changes
\* no quantidade.
C13_NaoEncontrado ==
    [][AlugouSemRegistro =>
        /\ ultimo'.status = 400
        /\ ultimo'.msg # ErroAlugar
        /\ UNCHANGED <<emprestimos, proximoId, livros, usuarios>>]_vars

\* C13 as amended: alugar with a user id or a book id that resolves to no
\* row is refused with the one 400 answer of the route, the same status and
\* message as the refusal of a book with quantidade 0, and creates no loan
\* and changes no quantidade.
C13_RecusaUnica ==
    [][AlugouSemRegistro =>
        /\ ultimo'.status = 400
        /\ ultimo'.msg = ErroAlugar
        /\ UNCHANGED <<emprestimos, proximoId, livros, usuarios>>]_vars

\* C13 witness: a user id that is no row was refused a book that has copies
C13_Witness ==
    /\ ultimo.rota = "alugar" /\ ultimo.status = 400
    /\ ultimo.usuarioId \notin DOMAIN usuarios
    /\ ultimo.livroId \in DOMAIN livros
    /\ livros[ultimo.livroId].quantidade > 0

\* C14: a devolver of an open loan whose book is no row (the row was deleted
\* outside the routes) answers 400 with the book-not-found message, keeps
\* the loan and changes no quantidade; a devolver of an id that is no open
\* loan answers 400 with the invalid-id message and changes nothing.
C14_DevolverSemLivro ==
    [][Respondeu("devolver") =>
        LET e == ultimo'.emprestimoId IN
        /\ (e \in DOMAIN emprestimos /\ emprestimos[e].LivroId \notin DOMAIN livros) =>
              /\ ultimo'.status = 400
              /\ ultimo'.msg = ErroLivro
              /\ UNCHANGED <<livros, emprestimos, usuarios, proximoId>>
        /\ (e \notin DOMAIN emprestimos) =>
              /\ ultimo'.status = 400
              /\ ultimo'.msg = ErroEmprestimo
              /\ UNCHANGED <<livros, emprestimos, usuarios, proximoId>>]_vars

\* C14 witness: the return of a loan whose book row is gone was refused and
\* the loan is still open
C14_Witness ==
    /\ ultimo.rota = "devolver" /\ ultimo.status = 400 /\ ultimo.msg = ErroLivro
    /\ ultimo.emprestimoId \in DOMAIN emprestimos
    /\ emprestimos[ultimo.emprestimoId].LivroId \notin DOMAIN livros

\* the value a column holds after an update, given the field of the body:
\* the prior value when the field is omitted or falsy ("" for a text, 0
\* for a number), else the value of the field
AposTexto(campo, antes) ==
    IF ~campo.dado \/ campo.v = "" THEN antes ELSE campo.v

AposNumero(campo, antes) ==
    IF ~campo.dado \/ campo.v = 0 THEN antes ELSE campo.v

\* C15: a book update of an existing book answers 200 and leaves every
\* column whose field is omitted or sent falsy ("" or 0) at its prior value
\* and sets every column whose field is sent truthy to that value, changing
\* no other book; a book update of an id that is no row answers 404 and
\* creates and changes no book.
C15_AtualizarLivro ==
    [][Respondeu("atualizarLivro") =>
        LET l == ultimo'.livroId
            corpo == ultimo'.corpo
        IN  IF l \in DOMAIN livros
               THEN /\ ultimo'.status = 200
                    /\ livros' = [livros EXCEPT ![l] =
                          [titulo |-> AposTexto(corpo[1], @.titulo),
                           autor |-> AposTexto(corpo[2], @.autor),
                           quantidade |-> AposNumero(corpo[3], @.quantidade)]]
               ELSE /\ ultimo'.status = 404
                    /\ UNCHANGED livros]_vars

\* C15 witness: Book{titulo: "A"} updated with {titulo: "", autor: "B"}
\* has titulo "A" and autor "B"
C15_Witness ==
    /\ ultimo.rota = "atualizarLivro" /\ ultimo.status = 200
    /\ ultimo.corpo[1] = Dado("")
    /\ ultimo.corpo[2] = Dado("B")
    /\ livros[ultimo.livroId].titulo = "A"
    /\ livros[ultimo.livroId].autor = "B"

\* C16: the query of a user's loans answers 200 with exactly the open loans
\* whose UsuarioId is the user asked for, the query of all loans answers 200
\* with exactly the open loans, and neither changes a loan, a book or a user.
C16_Consultas ==
    /\ [][Respondeu("emprestimosDoUsuario") =>
            /\ ultimo'.status = 200
            /\ \A e \in EmprestimoIds :
                  e \in ultimo'.lista <=>
                     (e \in DOMAIN emprestimos
                      /\ emprestimos[e].UsuarioId = ultimo'.usuarioId)
            /\ UNCHANGED <<emprestimos, proximoId, livros, usuarios>>]_vars
    /\ [][Respondeu("livrosAlugados") =>
            /\ ultimo'.status = 200
            /\ ultimo'.lista = DOMAIN emprestimos
            /\ UNCHANGED <<emprestimos, proximoId, livros, usuarios>>]_vars

\* C16 witness: with a loan open, the query for its user has returned it
C16_Witness ==
    /\ ultimo.rota = "emprestimosDoUsuario" /\ ultimo.status = 200
    /\ ultimo.lista # {}
    /\ ultimo.lista = DOMAIN emprestimos

\* C17: under every interleaving of the store calls of alugar and devolver
\* requests in flight together, whenever no request is in flight every
\* book's quantidade plus the number of its open loans equals its total.
C17_SemPerda ==
    Ocioso =>
        \A l \in DOMAIN livros :
            livros[l].quantidade + Cardinality(EmprestimosDe(l)) = total[l]

\* C18: of the renovar requests for one loan in flight together, at most as
\* many report success as the cap leaves room for: two requests that both
\* read renovacoes = 1, one renewal having succeeded before, are never both
\* past the test and about to save and answer 200.
C18_NoMaximoDuas ==
    \A p, q \in Procs :
        ~(/\ Juntos(p, q, "renovar_save")
          /\ loc[p].emprestimo.renovacoes = MaxRenovacoes - 1
          /\ loc[q].emprestimo.renovacoes = MaxRenovacoes - 1)

\* C19: over all routes, in every state every open loan references a user
\* that is a row and a book that is a row, and no devolver has been
\* answered with the book-not-found message.
C19_Integridade ==
    /\ \A e \in DOMAIN emprestimos :
          /\ emprestimos[e].UsuarioId \in DOMAIN usuarios
          /\ emprestimos[e].LivroId \in DOMAIN livros
    /\ ~(ultimo.rota = "devolver" /\ ultimo.msg = ErroLivro)

\* C19 witness: a book added through POST /livros has been lent
C19_Witness ==
    /\ ultimo.rota = "alugar" /\ ultimo.status = 201
    /\ ultimo.livroId > NumLivros
    /\ ultimo.id \in DOMAIN emprestimos
    /\ emprestimos[ultimo.id].LivroId = ultimo.livroId

====
